---- MODULE Spec2Model ----
(***************************************************************************)
(* Model of the delivery-note processor (backend/): the catalog mapper     *)
(* map_to_form_value, the business rules engine apply_business_rules and   *)
(* the parse-image pipeline that calls them.                               *)
(*                                                                         *)
(* Python str values are TLA+ strings; `k in s` is Contains(k, s),         *)
(* str.lower and str.strip are computed character by character.            *)
(* Optional[str] is None (the empty tuple) or Some(s) (a 1-tuple).         *)
(***************************************************************************)
EXTENDS Integers, Sequences, FiniteSets, TLC

VARIABLES pc, parsed_note, enhanced_note, product_name, returned_value,
          page, fill_pc, fill_items, submissions, response,
          failed_models, attempted, model, llm_pc,
          catalog, calls

\* The form filler, the OpenRouter rotation and the concurrent invocations.
form_vars == <<page, fill_pc, fill_items, submissions, response>>

llm_vars == <<failed_models, attempted, model, llm_pc>>

call_vars == <<catalog, calls>>

rules_vars == <<pc, parsed_note, enhanced_note, product_name, returned_value>>

vars == <<pc, parsed_note, enhanced_note, product_name, returned_value,
          form_vars, llm_vars, call_vars>>

\* Longest item list of an input note.
MaxItems == 2

\* Most submissions the form service receives.
MaxSubmissions == 2

\* Largest quantity written on a note.
MaxQty == 3

-----------------------------------------------------------------------------
(* Python values *)

None == <<>>

Some(s) == <<s>>

\* Python truthiness of an Optional[str]: None and "" are falsy.
Truthy(opt) == opt # None /\ opt[1] # ""

CharAt(s, i) == SubSeq(s, i, i)

\* Python `k in s` on strings.
Contains(k, s) ==
    \E i \in 1..(Len(s) - Len(k) + 1) : SubSeq(s, i, i + Len(k) - 1) = k

UpperChars == "ABCDEFGHIJKLMNOPQRSTUVWXYZÁÉÍÓÚÑ"

LowerChars == "abcdefghijklmnopqrstuvwxyzáéíóúñ"

\* The lowercase of each uppercase letter, position by position.
LowerOf ==
    [c \in {CharAt(UpperChars, i) : i \in 1..Len(UpperChars)} |->
        CharAt(LowerChars, CHOOSE i \in 1..Len(UpperChars) : CharAt(UpperChars, i) = c)]

LowerChar(c) == IF c \in DOMAIN LowerOf THEN LowerOf[c] ELSE c

RECURSIVE str_lower(_)
str_lower(s) ==
    IF Len(s) = 0 THEN ""
    ELSE LowerChar(CharAt(s, 1)) \o str_lower(SubSeq(s, 2, Len(s)))

IsSpace(c) == c \in {" ", "\t", "\n"}

RECURSIVE str_lstrip(_)
str_lstrip(s) ==
    IF Len(s) > 0 /\ IsSpace(CharAt(s, 1))
    THEN str_lstrip(SubSeq(s, 2, Len(s)))
    ELSE s

RECURSIVE str_rstrip(_)
str_rstrip(s) ==
    IF Len(s) > 0 /\ IsSpace(CharAt(s, Len(s)))
    THEN str_rstrip(SubSeq(s, 1, Len(s) - 1))
    ELSE s

str_strip(s) == str_rstrip(str_lstrip(s))

-----------------------------------------------------------------------------
(* config.py *)

PRODUCT_MAPPING == <<
    <<"equipo lago", "EQUIPO | cooler | LAGO">>,
    <<"equipo rio", "EQUIPO | cooler | RIO">>,
    <<"romi plus", "EQUIPO | purificador | Romi Plus">>,
    <<"tanque hidroneumatico", "EQUIPO | tanque | Tanque Hidro. 4G">>,
    <<"tanque hidroneumático", "EQUIPO | tanque | Tanque Hidro. 4G">>,
    <<"tubo de co2 2.5", "CO2 | tubo | Tubo de co2 de 2,5 Kg">>,
    <<"tubo de co2 2,5", "CO2 | tubo | Tubo de co2 de 2,5 Kg">>,
    <<"tubo de co2 3", "CO2 | tubo | Tubo de co2 de 3 Kg">>,
    <<"tubo de co2 5", "CO2 | tubo | Tubo de co2 de 5 Kg">>,
    <<"tubo de co2 5kg", "CO2 | tubo | Tubo de co2 de 5 Kg">>,
    <<"tubos de co2 5kg", "CO2 | tubo | Tubo de co2 de 5 Kg">>,
    <<"tubo de co2 8", "CO2 | tubo | Tubo de co2 de 8 Kg">>,
    <<"tubo de co2 10", "CO2 | tubo | Tubo de co2 de 10 Kg">>,
    <<"regulador zerica", "CO2 | regulador | Zerica">>,
    <<"regulador talos", "CO2 | regulador | Talos">>,
    <<"manometro", "CO2 | regulador | Zerica">>,
    <<"manómetro", "CO2 | regulador | Zerica">>,
    <<"conector recto 8-6", "CONECTOR | acople rapido | 8-6">>,
    <<"conector 1/8-8", "CONECTOR | acople rapido | Rosca macho 1/8 - 8">>,
    <<"llave de paso 6-6", "CONECTOR | llave de paso | 6-6">>,
    <<"llave de paso 1/4-6", "CONECTOR | llave de paso | 1/4-6">>,
    <<"bifurcacion y 6-6-6", "CONECTOR | acople rapido - bifurcacion Y | 6-6-6">>,
    <<"bifurcación y 6-6-6", "CONECTOR | acople rapido - bifurcacion Y | 6-6-6">>,
    <<"llave de ai", "CONECTOR | llave de paso | 6-6">>,
    <<"botellas cantaro 500", "ENVASADO | botellas | Cantaro 500">>,
    <<"botellas cántaro 500", "ENVASADO | botellas | Cantaro 500">>,
    <<"tapas cantaro plateadas", "ENVASADO | tapas | Tapas Cantaro Plateadas">>,
    <<"tapas cántaro plateadas", "ENVASADO | tapas | Tapas Cantaro Plateadas">>,
    <<"tapas cantaro negras", "ENVASADO | tapas | Tapas Cantaro Negras">>,
    <<"tapas cántaro negras", "ENVASADO | tapas | Tapas Cantaro Negras">>,
    <<"bandeja de goteo", "EQUIPO | cooler | Bandeja metalica LAGO">>,
    <<"cable interlock", "INSUMO | cooler | Cable interlock 220 volt">>,
    <<"cable interlock 220v", "INSUMO | cooler | Cable interlock 220 volt">>,
    <<"protector de tension", "INSUMO | cooler | Protector de tension">>,
    <<"protector de tensión", "INSUMO | cooler | Protector de tension">>,
    <<"cepillo de limpieza", "REPUESTOS | limpieza | Cepillos botellas">>,
    <<"cepillo limpieza", "REPUESTOS | limpieza | Cepillos botellas">>,
    <<"fuente", "REPUESTOS | purificador | Fuente de 220 a 24 volt">> >>

MappingKey(i) == PRODUCT_MAPPING[i][1]

\* Mutant: the more specific tube entry gets an option of its own and stays
\* after the generic one.
MappingValue_SpecificOption(i) ==
    IF PRODUCT_MAPPING[i][1] = "tubo de co2 5kg"
    THEN "CO2 | tubo | Tubo de co2 de 5 Kg (recarga)"
    ELSE PRODUCT_MAPPING[i][2]

MappingValue(i) == PRODUCT_MAPPING[i][2]

OPENROUTER_MODELS == <<
    "google/gemini-2.0-flash-exp:free",
    "google/gemini-exp-1206:free",
    "meta-llama/llama-3.2-90b-vision-instruct:free",
    "meta-llama/llama-3.2-11b-vision-instruct:free",
    "qwen/qwen-2-vl-7b-instruct:free" >>

-----------------------------------------------------------------------------
(* models.py *)

DeliveryNoteItem(product, quantity, form_value, is_auto_added) ==
    [product |-> product, quantity |-> quantity,
     form_value |-> form_value, is_auto_added |-> is_auto_added]

ParsedDeliveryNote(items, raw_text, client_name, remito_number, fecha) ==
    [items |-> items, raw_text |-> raw_text, client_name |-> client_name,
     remito_number |-> remito_number, fecha |-> fecha]

-----------------------------------------------------------------------------
(* business_rules.py: the mapper *)

\* Product names of delivery notes and of the rules; their lower().strip() is
\* tabulated in NormalizedName, evaluated once. Any other name is normalized
\* where it is used, by the same expression.
TabulatedNames ==
    {"EQUIPO LAGO", "EQUIPO RIO", "Purificador Equipo Rio", "ROMI PLUS + FUENTE",
     "TANQUE HIDRONEUMATICO", "EQUIPO LAGO + TUBO DE CO2 3", "MANOMETRO",
     "CABLE INTERLOCK 220V", "Conector 1/8-8", "BANDEJA DE GOTEO",
     "TAPAS CANTARO NEGRAS", " Llave de Paso ", "TUBO DE CO2 (5KG)",
     "BOTELLAS CANTARO 500", "Cable Interlock 220V", "Conector Recto 8-6",
     "Llave de paso 6-6", "Bifurcación Y 6-6-6", "Llave de paso 1/4-6",
     "Regulador ZERICA", "Regulador TALOS", "Regulador/Manómetro",
     "Bandeja de Goteo (incluida con Lago)", "Tapas Cántaro Plateadas",
     "Tapas Cántaro Negras"}

NormalizedName == [name \in TabulatedNames |-> str_strip(str_lower(name))]

normalize_product_name(name) ==
    IF name \in TabulatedNames THEN NormalizedName[name]
    ELSE str_strip(str_lower(name))

\* The `for key, value in PRODUCT_MAPPING.items()` loop from entry i on.
RECURSIVE mapping_scan(_, _, _)
mapping_scan(normalized, original, i) ==
    IF i > Len(PRODUCT_MAPPING) THEN original
    ELSE IF Contains(MappingKey(i), normalized) THEN MappingValue(i)
    ELSE mapping_scan(normalized, original, i + 1)

\* Mutant: the fallback returns the normalized name.
map_to_form_value_Normalized(name) ==
    mapping_scan(normalize_product_name(name), normalize_product_name(name), 1)

map_to_form_value(name) ==
    mapping_scan(normalize_product_name(name), name, 1)

-----------------------------------------------------------------------------
(* business_rules.py: the rules engine *)

\* Mutant: the first pass keeps a form value the item already carries.
first_pass_KeepExisting(items) ==
    [i \in 1..Len(items) |->
        IF Truthy(items[i].form_value) THEN items[i]
        ELSE [items[i] EXCEPT !.form_value = Some(map_to_form_value(items[i].product))]]

\* The first pass assigns item.form_value on each object of the list; the list
\* `items = list(parsed_note.items)` is a shallow copy, so these are the
\* caller's item objects.
first_pass(items) ==
    [i \in 1..Len(items) |->
        [items[i] EXCEPT !.form_value = Some(map_to_form_value(items[i].product))]]

has_equipo_lago(items) ==
    \E i \in 1..Len(items) :
        LET normalized == normalize_product_name(items[i].product)
        IN  Contains("equipo lago", normalized) \/ Contains("lago", normalized)

\* Python: `a or b and not c` is `a or (b and not c)`.
has_equipo_rio(items) ==
    \E i \in 1..Len(items) :
        LET normalized == normalize_product_name(items[i].product)
        IN  \/ Contains("equipo rio", normalized)
            \/ (Contains("rio", normalized) /\ ~Contains("purificador", normalized))

has_romi_plus(items) ==
    \E i \in 1..Len(items) :
        LET normalized == normalize_product_name(items[i].product)
        IN  Contains("romi plus", normalized) \/ Contains("romi", normalized)

has_tanque_hidro(items) ==
    \E i \in 1..Len(items) :
        LET normalized == normalize_product_name(items[i].product)
        IN  /\ Contains("tanque", normalized)
            /\ \/ Contains("hidro", normalized)
               \/ Contains("hidroneumático", normalized)
               \/ Contains("hidroneumatico", normalized)

has_tubo_co2(items) ==
    \E i \in 1..Len(items) :
        LET normalized == normalize_product_name(items[i].product)
        IN  Contains("tubo", normalized) /\ Contains("co2", normalized)

has_regulator(items) ==
    \E i \in 1..Len(items) :
        LET normalized == normalize_product_name(items[i].product)
        IN  \/ Contains("regulador", normalized)
            \/ Contains("manómetro", normalized)
            \/ Contains("manometro", normalized)

\* Mutant: the loop adds the quantities up (`cantaro_500_qty += item.quantity`).
RECURSIVE cantaro_scan_Sum(_, _, _)
cantaro_scan_Sum(items, i, qty) ==
    IF i > Len(items) THEN qty
    ELSE LET normalized == normalize_product_name(items[i].product)
         IN  cantaro_scan_Sum(items, i + 1,
                IF /\ Contains("botellas", normalized)
                   /\ Contains("cantaro", normalized)
                   /\ Contains("500", normalized)
                THEN qty + items[i].quantity ELSE qty)

\* The loop's assignment `cantaro_500_qty = item.quantity`, from item i on.
RECURSIVE cantaro_scan(_, _, _)
cantaro_scan(items, i, qty) ==
    IF i > Len(items) THEN qty
    ELSE LET normalized == normalize_product_name(items[i].product)
         IN  cantaro_scan(items, i + 1,
                IF /\ Contains("botellas", normalized)
                   /\ Contains("cantaro", normalized)
                   /\ Contains("500", normalized)
                THEN items[i].quantity ELSE qty)

cantaro_500_qty(items) == cantaro_scan(items, 1, 0)

\* Mutant: an appended item keeps the default is_auto_added.
AutoAdded_Unflagged(product, quantity, form_value) ==
    DeliveryNoteItem(product, quantity, Some(form_value), FALSE)

\* Mutant: an appended item carries its product name as form value.
AutoAdded_ProductAsValue(product, quantity, form_value) ==
    DeliveryNoteItem(product, quantity, Some(product), TRUE)

\* An item a rule appends.
AutoAdded(product, quantity, form_value) ==
    DeliveryNoteItem(product, quantity, Some(form_value), TRUE)

\* Mutant: the guard looks for "cable interlock" in the name as written.
Rule1_RawGuard(items) ==
    IF /\ has_equipo_lago(items) \/ has_equipo_rio(items)
       /\ ~\E i \in 1..Len(items) : Contains("cable interlock", items[i].product)
    THEN << DeliveryNoteItem("Cable Interlock 220V", 1,
                Some("INSUMO | cooler | Cable interlock 220 volt"), TRUE) >>
    ELSE << >>

\* Rule 1: Equipo Lago/Rio -> Cable Interlock 220V
Rule1(items) ==
    IF /\ has_equipo_lago(items) \/ has_equipo_rio(items)
       /\ ~\E i \in 1..Len(items) :
              Contains("cable interlock", normalize_product_name(items[i].product))
    THEN << AutoAdded("Cable Interlock 220V", 1,
                      "INSUMO | cooler | Cable interlock 220 volt") >>
    ELSE << >>

\* Rule 2: Romi Plus -> Conector Recto 8-6 + Llave de paso 6-6
Rule2(items) ==
    IF has_romi_plus(items)
    THEN (IF ~\E i \in 1..Len(items) :
                /\ Contains("conector", normalize_product_name(items[i].product))
                /\ Contains("8-6", items[i].product)
          THEN << AutoAdded("Conector Recto 8-6", 1, "CONECTOR | acople rapido | 8-6") >>
          ELSE << >>)
         \o
         (IF ~\E i \in 1..Len(items) :
                /\ Contains("llave", normalize_product_name(items[i].product))
                /\ Contains("6-6", items[i].product)
          THEN << AutoAdded("Llave de paso 6-6", 1, "CONECTOR | llave de paso | 6-6") >>
          ELSE << >>)
    ELSE << >>

\* Rule 3: Tanque Hidroneumatico -> Bifurcacion Y 6-6-6 + Llave de paso 1/4-6
Rule3(items) ==
    IF has_tanque_hidro(items)
    THEN (IF ~\E i \in 1..Len(items) :
                \/ Contains("bifurcacion", normalize_product_name(items[i].product))
                \/ Contains("bifurcación", normalize_product_name(items[i].product))
          THEN << AutoAdded("Bifurcación Y 6-6-6", 1,
                            "CONECTOR | acople rapido - bifurcacion Y | 6-6-6") >>
          ELSE << >>)
         \o
         (IF ~\E i \in 1..Len(items) :
                /\ Contains("llave", normalize_product_name(items[i].product))
                /\ Contains("1/4", items[i].product)
          THEN << AutoAdded("Llave de paso 1/4-6", 1, "CONECTOR | llave de paso | 1/4-6") >>
          ELSE << >>)
    ELSE << >>

\* Mutant: Rio is tested before Lago.
Rule4_RioFirst(items) ==
    IF has_tubo_co2(items) /\ ~has_regulator(items)
    THEN IF has_equipo_rio(items)
         THEN << DeliveryNoteItem("Regulador TALOS", 1, Some("CO2 | regulador | Talos"), TRUE) >>
         ELSE IF has_equipo_lago(items)
         THEN << DeliveryNoteItem("Regulador ZERICA", 1, Some("CO2 | regulador | Zerica"), TRUE) >>
         ELSE << DeliveryNoteItem("Regulador/Manómetro", 1, Some("CO2 | regulador | Zerica"), TRUE) >>
    ELSE << >>

\* Rule 4: Tubo CO2 -> regulator, its brand from the equipment.
Rule4(items) ==
    IF has_tubo_co2(items) /\ ~has_regulator(items)
    THEN IF has_equipo_lago(items)
         THEN << AutoAdded("Regulador ZERICA", 1, "CO2 | regulador | Zerica") >>
         ELSE IF has_equipo_rio(items)
         THEN << AutoAdded("Regulador TALOS", 1, "CO2 | regulador | Talos") >>
         ELSE << AutoAdded("Regulador/Manómetro", 1, "CO2 | regulador | Zerica") >>
    ELSE << >>

\* Mutant: rule 4 does not set has_regulator.
has_regulator_after_rule4_NotSet(items) == has_regulator(items)

\* has_regulator after rule 4 (`has_regulator = True` when it fired).
has_regulator_after_rule4(items) ==
    has_regulator(items) \/ (has_tubo_co2(items) /\ ~has_regulator(items))

\* Rule 5: any regulator -> Conector 1/8-8
Rule5(items, new_items) ==
    IF /\ has_regulator_after_rule4(items)
       /\ ~\E i \in 1..Len(items) : Contains("1/8", items[i].product)
       /\ ~\E i \in 1..Len(new_items) : Contains("1/8", new_items[i].product)
    THEN << AutoAdded("Conector 1/8-8", 1,
                      "CONECTOR | acople rapido | Rosca macho 1/8 - 8") >>
    ELSE << >>

\* Mutant: the tray is added without looking for one on the note.
Rule6_NoGuard(items) ==
    IF has_equipo_lago(items)
    THEN << DeliveryNoteItem("Bandeja de Goteo (incluida con Lago)", 1,
                Some("EQUIPO | cooler | Bandeja metalica LAGO"), TRUE) >>
    ELSE << >>

\* Rule 6: Equipo Lago -> Bandeja de Goteo
Rule6(items) ==
    IF /\ has_equipo_lago(items)
       /\ ~\E i \in 1..Len(items) :
              Contains("bandeja", normalize_product_name(items[i].product))
    THEN << AutoAdded("Bandeja de Goteo (incluida con Lago)", 1,
                      "EQUIPO | cooler | Bandeja metalica LAGO") >>
    ELSE << >>

\* Mutant: both colours get half_qty, the odd bottle is lost.
Rule7_EqualHalves(items) ==
    IF cantaro_500_qty(items) > 0
    THEN LET half_qty == cantaro_500_qty(items) \div 2
             has_plateadas == \E i \in 1..Len(items) :
                 Contains("plateada", normalize_product_name(items[i].product))
             has_negras == \E i \in 1..Len(items) :
                 Contains("negra", normalize_product_name(items[i].product))
         IN  (IF ~has_plateadas
              THEN << DeliveryNoteItem("Tapas Cántaro Plateadas", half_qty,
                          Some("ENVASADO | tapas | Tapas Cantaro Plateadas"), TRUE) >>
              ELSE << >>)
             \o
             (IF ~has_negras
              THEN << DeliveryNoteItem("Tapas Cántaro Negras", half_qty,
                          Some("ENVASADO | tapas | Tapas Cantaro Negras"), TRUE) >>
              ELSE << >>)
    ELSE << >>

\* Rule 7: Botellas Cantaro 500 -> half Tapas Plateadas + half Tapas Negras
Rule7(items) ==
    IF cantaro_500_qty(items) > 0
    THEN LET half_qty == cantaro_500_qty(items) \div 2
             other_half == cantaro_500_qty(items) - half_qty
             has_plateadas == \E i \in 1..Len(items) :
                 Contains("plateada", normalize_product_name(items[i].product))
             has_negras == \E i \in 1..Len(items) :
                 Contains("negra", normalize_product_name(items[i].product))
         IN  (IF ~has_plateadas
              THEN << AutoAdded("Tapas Cántaro Plateadas", half_qty,
                                "ENVASADO | tapas | Tapas Cantaro Plateadas") >>
              ELSE << >>)
             \o
             (IF ~has_negras
              THEN << AutoAdded("Tapas Cántaro Negras", other_half,
                                "ENVASADO | tapas | Tapas Cantaro Negras") >>
              ELSE << >>)
    ELSE << >>

\* new_items once the seven rules have run, in the order of the appends.
new_items_of(items) ==
    LET upto4 == Rule1(items) \o Rule2(items) \o Rule3(items) \o Rule4(items)
    IN  upto4 \o Rule5(items, upto4) \o Rule6(items) \o Rule7(items)

\* Mutant: the appended items come first.
all_items_of_Prepended(items, new_items) == new_items \o items

\* `all_items = items + new_items`
all_items_of(items, new_items) == items \o new_items

\* Mutant: fecha is not copied to the returned note.
returned_note_NoFecha(parsed, all_items) ==
    ParsedDeliveryNote(all_items, parsed.raw_text, parsed.client_name,
                       parsed.remito_number, None)

\* The returned note.
returned_note(parsed, all_items) ==
    ParsedDeliveryNote(all_items, parsed.raw_text, parsed.client_name,
                       parsed.remito_number, parsed.fecha)

apply_business_rules(parsed) ==
    LET items == first_pass(parsed.items)
    IN  returned_note(parsed, all_items_of(items, new_items_of(items)))

-----------------------------------------------------------------------------
(* main.py: the parse-image pipeline *)

\* `if not item.form_value: item.form_value = map_to_form_value(item.product)`
map_products(items) ==
    [i \in 1..Len(items) |->
        IF ~Truthy(items[i].form_value)
        THEN [items[i] EXCEPT !.form_value = Some(map_to_form_value(items[i].product))]
        ELSE items[i]]

-----------------------------------------------------------------------------
(* Inputs *)

Quantities == (0 - 1)..MaxQty

\* Product names as the extractor writes them (the names of its prompt, a
\* line it did not split, handwriting variants) with the quantity of each.
NoteLines ==
    {<<p, 1>> : p \in {"EQUIPO LAGO", "EQUIPO RIO", "Purificador Equipo Rio",
                       "ROMI PLUS + FUENTE", "TANQUE HIDRONEUMATICO",
                       "EQUIPO LAGO + TUBO DE CO2 3",
                       "CABLE INTERLOCK 220V", "Conector 1/8-8",
                       "BANDEJA DE GOTEO", "TAPAS CANTARO NEGRAS",
                       " Llave de Paso "}}
    \cup {<<"TUBO DE CO2 (5KG)", 2>>}
    \cup {<<"BOTELLAS CANTARO 500", q>> : q \in Quantities}

\* An item built with a form value already chosen, one the mapper would not
\* give: DeliveryNoteItem(product=..., quantity=..., form_value=...).
PresetItems == {DeliveryNoteItem("MANOMETRO", 1, Some("CO2 | regulador | Talos"), FALSE)}

\* An item as DeliveryNoteItem(product=..., quantity=...) builds it, and the
\* preset ones.
NoteItems ==
    {DeliveryNoteItem(l[1], l[2], None, FALSE) : l \in NoteLines} \cup PresetItems

RECURSIVE SeqsUpTo(_, _)
SeqsUpTo(S, n) ==
    IF n = 0 THEN {<< >>}
    ELSE LET shorter == SeqsUpTo(S, n - 1)
         IN  shorter \cup {Append(q, x) : q \in shorter, x \in S}

ItemLists == SeqsUpTo(NoteItems, MaxItems)

Metadata ==
    {[raw_text |-> None, client_name |-> None, remito_number |-> None, fecha |-> None],
     [raw_text |-> Some("1 EQUIPO LAGO"), client_name |-> Some("Bar Sur"),
      remito_number |-> Some("0001-00001234"), fecha |-> Some("05/11/26")]}

\* Names handed to the mapper alone.
LookupNames ==
    {l[1] : l \in NoteLines}
    \cup {x.product : x \in PresetItems}
    \cup {MappingKey(i) : i \in 1..Len(PRODUCT_MAPPING)}
    \cup {"ROMI PLUS", "TUBO DE CO2 (2.5KG)", "TUBO DE CO2 (3KG)", "TUBO DE CO2 (8KG)",
          "TUBO DE CO2 (10KG)", "PROTECTOR DE TENSION", "BOTELLAS CANTARO 750",
          "TAPAS CANTARO PLATEADAS", "CEPILLO DE LIMPIEZA", "LLAVE DE PASO",
          "CONECTOR", "FUENTE", "  Tubo de CO2 5kg\n", "Regulador TALOS y manometro",
          "Cable Interlock 220V", "Conector Recto 8-6", "Llave de paso 6-6",
          "Bifurcación Y 6-6-6", "Llave de paso 1/4-6", "Regulador ZERICA",
          "Regulador TALOS", "Regulador/Manómetro",
          "Bandeja de Goteo (incluida con Lago)", "Tapas Cántaro Plateadas",
          "Tapas Cántaro Negras", "", " ", "BIFURCACIÓN Y 6-6-6"}

-----------------------------------------------------------------------------
(* form_filler.py *)

\* Item lists of a FormFillRequest: an enhanced note's items, and an item the
\* client sent without form value.
FormRequests ==
    {<< DeliveryNoteItem("EQUIPO LAGO", 1, Some("EQUIPO | cooler | LAGO"), FALSE) >>,
     << DeliveryNoteItem("EQUIPO LAGO", 1, Some("EQUIPO | cooler | LAGO"), FALSE),
        AutoAdded("Cable Interlock 220V", 1, "INSUMO | cooler | Cable interlock 220 volt") >>,
     << DeliveryNoteItem("TUBO DE CO2 (5KG)", 2, None, FALSE) >>}

\* The form as page.goto(FORM_URL) shows it, date and dropdowns filled.
BlankForm == [fields |-> << >>, submitted |-> FALSE]

\* What the loop writes for one item: the product dropdown (`item.form_value
\* or item.product`) and the quantity.
FilledField(item) ==
    <<IF Truthy(item.form_value) THEN item.form_value[1] ELSE item.product,
      item.quantity>>

\* FormFiller(): no browser, no page; nothing filled or sent yet.
InitFormFiller ==
    /\ page = None
    /\ fill_pc = "idle"
    /\ fill_items = << >>
    /\ submissions = << >>
    /\ response = "none"

\* fill_form up to the item loop: _init_browser opens a new page on the form.
FillFormInitBrowser ==
    /\ fill_pc = "idle"
    /\ \E items \in FormRequests : fill_items' = items
    /\ page' = Some(BlankForm)
    /\ fill_pc' = "filling"
    /\ UNCHANGED <<submissions, response>>
    /\ UNCHANGED <<rules_vars, llm_vars, call_vars>>

\* One turn of `for i, item in enumerate(items, start=1)`.
FillFormItem ==
    /\ fill_pc = "filling"
    /\ page # None
    /\ ~page[1].submitted
    /\ Len(page[1].fields) < Len(fill_items)
    /\ page' = Some([page[1] EXCEPT !.fields =
                        Append(@, FilledField(fill_items[Len(page[1].fields) + 1]))])
    /\ UNCHANGED <<fill_pc, fill_items, submissions, response>>
    /\ UNCHANGED <<rules_vars, llm_vars, call_vars>>

\* "# Auto-submit the form": submit_button.click() after the loop, then one
\* of the two success responses.
FillFormClickSubmit ==
    /\ fill_pc = "filling"
    /\ page # None
    /\ ~page[1].submitted
    /\ Len(page[1].fields) = Len(fill_items)
    /\ Len(submissions) < MaxSubmissions
    /\ submissions' = Append(submissions, [by |-> "fill_form", fields |-> page[1].fields])
    /\ page' = Some([page[1] EXCEPT !.submitted = TRUE])
    /\ \E message \in {"Formulario enviado exitosamente!",
                        "Formulario llenado y enviado. Verifique en Fillout."} :
          response' = message
    /\ fill_pc' = "returning"
    /\ UNCHANGED fill_items
    /\ UNCHANGED <<rules_vars, llm_vars, call_vars>>

\* `except Exception as e`: a browser call of the try block raised.
FillFormRaise ==
    /\ fill_pc = "filling"
    /\ response' = "Error filling form"
    /\ fill_pc' = "returning"
    /\ UNCHANGED <<page, fill_items, submissions>>
    /\ UNCHANGED <<rules_vars, llm_vars, call_vars>>

\* `finally: await self._close_browser()`.
FillFormCloseBrowser ==
    /\ fill_pc = "returning"
    /\ page' = None
    /\ fill_pc' = "idle"
    /\ UNCHANGED <<fill_items, submissions, response>>
    /\ UNCHANGED <<rules_vars, llm_vars, call_vars>>

\* FormFiller.submit_form: with a page, the click and one of two responses
\* (the click finds no button on a form already sent: main.py answers the
\* error); without a page the method returns None.
SubmitForm ==
    /\ IF page = None
       THEN /\ response' = "None"
            /\ UNCHANGED submissions
            /\ UNCHANGED page
       ELSE IF page[1].submitted
       THEN /\ response' = "Error"
            /\ UNCHANGED submissions
            /\ UNCHANGED page
       ELSE /\ Len(submissions) < MaxSubmissions
            /\ submissions' = Append(submissions,
                                     [by |-> "submit_form", fields |-> page[1].fields])
            /\ page' = Some([page[1] EXCEPT !.submitted = TRUE])
            /\ \E message \in {"Form submitted successfully!",
                                "Form submission may have failed. Please check."} :
                  response' = message
    /\ UNCHANGED <<fill_pc, fill_items>>
    /\ UNCHANGED <<rules_vars, llm_vars, call_vars>>

-----------------------------------------------------------------------------
(* llm_service.py *)

\* `available` of _get_next_openrouter_model, after its reset.
available_models(failed) ==
    LET available == {OPENROUTER_MODELS[i] : i \in {j \in 1..Len(OPENROUTER_MODELS) :
                                                   OPENROUTER_MODELS[j] \notin failed}}
    IN  IF available = {}
        THEN {OPENROUTER_MODELS[i] : i \in 1..Len(OPENROUTER_MODELS)}
        ELSE available

\* self._failed_models when _get_next_openrouter_model returns: cleared if
\* no model was available.
failed_models_after_get_next(failed) ==
    IF \A i \in 1..Len(OPENROUTER_MODELS) : OPENROUTER_MODELS[i] \in failed
    THEN {}
    ELSE failed

\* llm_service = LLMService(): no failed model; no call under way.
InitLLMService ==
    /\ failed_models = {}
    /\ attempted = << >>
    /\ model = ""
    /\ llm_pc = "idle"

\* A parse_image call with the openrouter provider enters its loop; the
\* singleton keeps _failed_models from the calls before.
LLMParseImage ==
    /\ llm_pc \in {"idle", "returned", "raised"}
    /\ attempted' = << >>
    /\ model' = ""
    /\ llm_pc' = "loop"
    /\ UNCHANGED failed_models
    /\ UNCHANGED <<rules_vars, form_vars, call_vars>>

\* An iteration of `for _ in range(len(OPENROUTER_MODELS))` begins:
\* model = self._get_next_openrouter_model(), a random.choice. `attempted`
\* lists the models this call has chosen.
GetNextOpenrouterModel ==
    /\ llm_pc = "loop"
    /\ Len(attempted) < Len(OPENROUTER_MODELS)
    /\ \E m \in available_models(failed_models) :
          /\ model' = m
          /\ attempted' = Append(attempted, m)
    /\ failed_models' = failed_models_after_get_next(failed_models)
    /\ llm_pc' = "calling"
    /\ UNCHANGED <<rules_vars, form_vars, call_vars>>

\* _call_openrouter returned: `break`.
CallOpenrouterReturns ==
    /\ llm_pc = "calling"
    /\ llm_pc' = "returned"
    /\ UNCHANGED <<failed_models, attempted, model>>
    /\ UNCHANGED <<rules_vars, form_vars, call_vars>>

\* _call_openrouter raised: self._failed_models.add(model); continue.
CallOpenrouterRaises ==
    /\ llm_pc = "calling"
    /\ failed_models' = failed_models \cup {model}
    /\ llm_pc' = "loop"
    /\ UNCHANGED <<attempted, model>>
    /\ UNCHANGED <<rules_vars, form_vars, call_vars>>

\* The loop's `else`: raise Exception("All OpenRouter models failed. ...").
RaiseAllModelsFailed ==
    /\ llm_pc = "loop"
    /\ Len(attempted) = Len(OPENROUTER_MODELS)
    /\ llm_pc' = "raised"
    /\ UNCHANGED <<failed_models, attempted, model>>
    /\ UNCHANGED <<rules_vars, form_vars, call_vars>>

-----------------------------------------------------------------------------
(* Concurrent invocations *)

\* Two invocations of apply_business_rules, each on a note of its own, run
\* step by step. `catalog` is the module-level PRODUCT_MAPPING they share;
\* calls[t] holds invocation t's argument and locals.
CallIds == {1, 2}

IndependentNotes ==
    {ParsedDeliveryNote(items, None, None, None, None) :
        items \in {<< DeliveryNoteItem("EQUIPO LAGO", 1, None, FALSE) >>,
                   << DeliveryNoteItem("EQUIPO RIO", 1, None, FALSE),
                      DeliveryNoteItem("TUBO DE CO2 (5KG)", 2, None, FALSE) >>,
                   << DeliveryNoteItem("ROMI PLUS + FUENTE", 1, None, FALSE),
                      DeliveryNoteItem("TANQUE HIDRONEUMATICO", 1, None, FALSE) >>,
                   << DeliveryNoteItem("BOTELLAS CANTARO 500", 3, None, FALSE) >>}}

NotCalled ==
    [pc |-> "idle", note |-> ParsedDeliveryNote(<< >>, None, None, None, None),
     items |-> << >>, i |-> 1,
     result |-> ParsedDeliveryNote(<< >>, None, None, None, None),
     overlapped |-> FALSE]

InitCalls ==
    /\ catalog = PRODUCT_MAPPING
    /\ calls = [t \in CallIds |-> NotCalled]

\* map_to_form_value's loop over the shared table, from entry i on.
RECURSIVE catalog_scan(_, _, _, _)
catalog_scan(table, normalized, original, i) ==
    IF i > Len(table) THEN original
    ELSE IF Contains(table[i][1], normalized) THEN table[i][2]
    ELSE catalog_scan(table, normalized, original, i + 1)

\* Another invocation is between its call and its return.
OtherRunning(t) == \E u \in CallIds \ {t} : calls[u].pc = "loop"

\* apply_business_rules(parsed_note) is called: items = list(parsed_note.items).
Invoke(t) ==
    /\ calls[t].pc = "idle"
    /\ \E note \in IndependentNotes :
          calls' = [calls EXCEPT ![t] = [@ EXCEPT !.pc = "loop", !.note = note,
                                                  !.items = note.items, !.i = 1]]
    /\ UNCHANGED catalog
    /\ UNCHANGED <<rules_vars, form_vars, llm_vars>>

\* Mutant: the lookup stores its answer in the shared table.
FirstPassStep_StoresAnswer(t) ==
    /\ calls[t].pc = "loop"
    /\ calls[t].i <= Len(calls[t].items)
    /\ LET item == calls[t].items[calls[t].i]
           normalized == normalize_product_name(item.product)
           value == catalog_scan(catalog, normalized, item.product, 1)
       IN  /\ calls' = [calls EXCEPT ![t] =
                          [@ EXCEPT !.items[calls[t].i].form_value = Some(value),
                                    !.i = @ + 1,
                                    !.overlapped = @ \/ OtherRunning(t)]]
           /\ catalog' = << <<normalized, value>> >> \o catalog
    /\ UNCHANGED <<rules_vars, form_vars, llm_vars>>

\* One turn of the detection loop: item.form_value = map_to_form_value(
\* item.product), which reads the table; the flags are functions of the
\* product names and are taken when the rules run.
FirstPassStep(t) ==
    /\ calls[t].pc = "loop"
    /\ calls[t].i <= Len(calls[t].items)
    /\ LET item == calls[t].items[calls[t].i]
           normalized == normalize_product_name(item.product)
           value == catalog_scan(catalog, normalized, item.product, 1)
       IN  calls' = [calls EXCEPT ![t] =
                       [@ EXCEPT !.items[calls[t].i].form_value = Some(value),
                                 !.i = @ + 1,
                                 !.overlapped = @ \/ OtherRunning(t)]]
    /\ UNCHANGED catalog
    /\ UNCHANGED <<rules_vars, form_vars, llm_vars>>

\* The seven rules and the return, after the loop.
RunRules(t) ==
    /\ calls[t].pc = "loop"
    /\ calls[t].i > Len(calls[t].items)
    /\ calls' = [calls EXCEPT ![t] =
                    [@ EXCEPT !.result = returned_note(calls[t].note,
                                             all_items_of(calls[t].items,
                                                          new_items_of(calls[t].items))),
                              !.pc = "done",
                              !.overlapped = @ \/ OtherRunning(t)]]
    /\ UNCHANGED catalog
    /\ UNCHANGED <<rules_vars, form_vars, llm_vars>>

-----------------------------------------------------------------------------
(* The state machine *)

NoNote == ParsedDeliveryNote(<< >>, None, None, None, None)

Init ==
    /\ pc = "start"
    /\ parsed_note = NoNote
    /\ enhanced_note = NoNote
    /\ product_name = ""
    /\ returned_value = ""
    /\ InitFormFiller
    /\ InitLLMService
    /\ InitCalls

\* A note is built: from the extractor's result, or by a caller that set a
\* form value (PresetItems).
ParseImage ==
    /\ pc = "start"
    /\ \E items \in ItemLists, m \in Metadata :
          parsed_note' = ParsedDeliveryNote(items, m.raw_text, m.client_name,
                                            m.remito_number, m.fecha)
    /\ pc' = "parsed"
    /\ UNCHANGED <<enhanced_note, product_name, returned_value>>
    /\ UNCHANGED <<form_vars, llm_vars, call_vars>>

\* The endpoint's loop over parsed_note.items before the rules.
MapProducts ==
    /\ pc = "parsed"
    /\ parsed_note' = [parsed_note EXCEPT !.items = map_products(parsed_note.items)]
    /\ pc' = "mapped"
    /\ UNCHANGED <<enhanced_note, product_name, returned_value>>
    /\ UNCHANGED <<form_vars, llm_vars, call_vars>>

\* enhanced_note = apply_business_rules(parsed_note): the call returns a new
\* note and has assigned form_value on the item objects of parsed_note.
ApplyBusinessRules ==
    /\ pc \in {"parsed", "mapped"}
    /\ enhanced_note' = apply_business_rules(parsed_note)
    /\ parsed_note' = [parsed_note EXCEPT !.items = first_pass(parsed_note.items)]
    /\ pc' = "done"
    /\ UNCHANGED <<product_name, returned_value>>
    /\ UNCHANGED <<form_vars, llm_vars, call_vars>>

\* A call map_to_form_value(name).
MapToFormValue ==
    /\ pc = "start"
    /\ \E name \in LookupNames :
          /\ product_name' = name
          /\ returned_value' = map_to_form_value(name)
    /\ pc' = "looked_up"
    /\ UNCHANGED <<parsed_note, enhanced_note>>
    /\ UNCHANGED <<form_vars, llm_vars, call_vars>>

Next ==
    \/ ParseImage
    \/ MapProducts
    \/ ApplyBusinessRules
    \/ MapToFormValue

Spec == Init /\ [][Next]_vars

\* The form endpoints: fill_form step by step, submit_form at any moment.
NextForm ==
    \/ FillFormInitBrowser
    \/ FillFormItem
    \/ FillFormClickSubmit
    \/ FillFormRaise
    \/ FillFormCloseBrowser
    \/ SubmitForm

SpecForm == Init /\ [][NextForm]_vars

\* parse_image calls of the one llm_service, one after the other.
NextLLM ==
    \/ LLMParseImage
    \/ GetNextOpenrouterModel
    \/ CallOpenrouterReturns
    \/ CallOpenrouterRaises
    \/ RaiseAllModelsFailed

SpecLLM == Init /\ [][NextLLM]_vars

\* The steps of the two invocations, in any order.
NextCalls ==
    \E t \in CallIds :
        \/ Invoke(t)
        \/ FirstPassStep(t)
        \/ RunRules(t)

SpecCalls == Init /\ [][NextCalls]_vars

-----------------------------------------------------------------------------
(* Vocabulary of the properties *)

Done == pc = "done"

\* The items of the note the call was given, and of the note it returned.
InputItems == parsed_note.items

OutputItems == enhanced_note.items

\* The items the call appended after the input's.
Synthesized == SubSeq(OutputItems, Len(InputItems) + 1, Len(OutputItems))

ProductQty(items) ==
    [i \in 1..Len(items) |-> <<items[i].product, items[i].quantity>>]

SynthesizedNamed(product) ==
    {i \in 1..Len(Synthesized) : Synthesized[i].product = product}

RegulatorNames == {"Regulador ZERICA", "Regulador TALOS", "Regulador/Manómetro"}

-----------------------------------------------------------------------------
(* C1 *)

\* C1: apply_business_rules leaves every item of its input note as it was:
\* same product, quantity, form_value and is_auto_added after the call.
C1_InputItemsNotMutated ==
    [][ApplyBusinessRules => parsed_note'.items = parsed_note.items]_vars

-----------------------------------------------------------------------------
(* C2 *)

\* C2: applying the rules to their own output adds nothing: the item list of
\* apply_business_rules(apply_business_rules(n)) has the products and
\* quantities of apply_business_rules(n), in the same order.
C2_ReapplyAddsNothing ==
    Done => ProductQty(apply_business_rules(enhanced_note).items)
                = ProductQty(OutputItems)

\* The regulator rule and the cap split both fired on the first call.
C2_Witness ==
    /\ Done
    /\ \E r \in RegulatorNames : SynthesizedNamed(r) # {}
    /\ SynthesizedNamed("Tapas Cántaro Plateadas") # {}
    /\ SynthesizedNamed("Tapas Cántaro Negras") # {}
    /\ SynthesizedNamed("Conector 1/8-8") # {}

-----------------------------------------------------------------------------
(* C3 *)

\* The "already present" test of each rule, on one product name.
GuardNames ==
    {"cable interlock", "conector 8-6", "llave 6-6", "bifurcacion", "llave 1/4",
     "regulador", "1/8", "bandeja", "plateada", "negra"}

MatchesGuard(g, product) ==
    LET normalized == normalize_product_name(product)
    IN  CASE g = "cable interlock" -> Contains("cable interlock", normalized)
          [] g = "conector 8-6" -> Contains("conector", normalized) /\ Contains("8-6", product)
          [] g = "llave 6-6" -> Contains("llave", normalized) /\ Contains("6-6", product)
          [] g = "bifurcacion" -> \/ Contains("bifurcacion", normalized)
                                  \/ Contains("bifurcación", normalized)
          [] g = "llave 1/4" -> Contains("llave", normalized) /\ Contains("1/4", product)
          [] g = "regulador" -> \/ Contains("regulador", normalized)
                                \/ Contains("manómetro", normalized)
                                \/ Contains("manometro", normalized)
          [] g = "1/8" -> Contains("1/8", product)
          [] g = "bandeja" -> Contains("bandeja", normalized)
          [] g = "plateada" -> Contains("plateada", normalized)
          [] g = "negra" -> Contains("negra", normalized)

GuardCount(g, items) ==
    Cardinality({i \in 1..Len(items) : MatchesGuard(g, items[i].product)})

\* C3 as stated: for every input note, the output never holds two items that
\* match the same "already present" guard.
C3_NeverTwoForOneGuard ==
    Done => \A g \in GuardNames : GuardCount(g, OutputItems) <= 1

\* C3 as amended: the rules add no item matching a guard that an input item
\* already matches, and at most one item per guard; so the output holds two
\* items matching one guard only when the input already held them.
C3_NoDuplicateAdded ==
    Done => \A g \in GuardNames :
                GuardCount(g, OutputItems)
                    <= IF GuardCount(g, InputItems) = 0 THEN 1
                       ELSE GuardCount(g, InputItems)

\* Rules 1 and 6 were triggered by a Lago note that already lists the cable
\* and the tray, and added neither.
C3_Witness ==
    /\ Done
    /\ has_equipo_lago(InputItems)
    /\ GuardCount("cable interlock", InputItems) = 1
    /\ GuardCount("cable interlock", OutputItems) = 1
    /\ GuardCount("bandeja", OutputItems) = 1

-----------------------------------------------------------------------------
(* C4 *)

SynthesizedCaps ==
    SynthesizedNamed("Tapas Cántaro Plateadas") \cup SynthesizedNamed("Tapas Cántaro Negras")

RECURSIVE SumQuantity(_, _)
SumQuantity(items, idx) ==
    IF idx = {} THEN 0
    ELSE LET i == CHOOSE i \in idx : TRUE
         IN  items[i].quantity + SumQuantity(items, idx \ {i})

\* C4 as stated: for every note with cantaro_500_qty = q > 0 the synthesized
\* cap items sum to q, plateadas being q div 2 and negras q - q div 2.
C4_SynthesizedCapsSumToQty ==
    (Done /\ cantaro_500_qty(InputItems) > 0)
        => SumQuantity(Synthesized, SynthesizedCaps) = cantaro_500_qty(InputItems)

\* C4 as amended: with q > 0, a synthesized plateadas item has quantity
\* q div 2 and a synthesized negras item q - q div 2; a colour is synthesized
\* (once) exactly when no input item names it; so when the note names neither
\* colour both are synthesized, they sum to q and negras >= plateadas.
C4_CapSplit ==
    (Done /\ cantaro_500_qty(InputItems) > 0) =>
        LET q == cantaro_500_qty(InputItems)
            plateadas == SynthesizedNamed("Tapas Cántaro Plateadas")
            negras == SynthesizedNamed("Tapas Cántaro Negras")
        IN  /\ \A i \in plateadas : Synthesized[i].quantity = q \div 2
            /\ \A i \in negras : Synthesized[i].quantity = q - (q \div 2)
            /\ Cardinality(plateadas) = IF GuardCount("plateada", InputItems) = 0 THEN 1 ELSE 0
            /\ Cardinality(negras) = IF GuardCount("negra", InputItems) = 0 THEN 1 ELSE 0
            /\ (GuardCount("plateada", InputItems) = 0 /\ GuardCount("negra", InputItems) = 0)
                  => /\ SumQuantity(Synthesized, SynthesizedCaps) = q
                     /\ \A i \in plateadas, j \in negras :
                            Synthesized[j].quantity >= Synthesized[i].quantity

\* An odd quantity was split: 3 bottles, 1 plateada and 2 negras.
C4_Witness ==
    /\ Done
    /\ cantaro_500_qty(InputItems) = 3
    /\ \E i \in SynthesizedNamed("Tapas Cántaro Plateadas") : Synthesized[i].quantity = 1
    /\ \E j \in SynthesizedNamed("Tapas Cántaro Negras") : Synthesized[j].quantity = 2

-----------------------------------------------------------------------------
(* C5 *)

\* C5: in the output, is_auto_added is true exactly on the items the call
\* synthesized; every item of the input list carries false.
C5_AutoAddedIffSynthesized ==
    Done => \A i \in 1..Len(OutputItems) :
                OutputItems[i].is_auto_added <=> i > Len(InputItems)

\* The output holds parsed items and synthesized items.
C5_Witness ==
    /\ Done
    /\ Len(InputItems) >= 2
    /\ Len(Synthesized) >= 2

-----------------------------------------------------------------------------
(* C6 *)

\* The place of each synthesized product in the order the rules append.
RuleOrder ==
    << {"Cable Interlock 220V"}, {"Conector Recto 8-6"}, {"Llave de paso 6-6"},
       {"Bifurcación Y 6-6-6"}, {"Llave de paso 1/4-6"}, RegulatorNames,
       {"Conector 1/8-8"}, {"Bandeja de Goteo (incluida con Lago)"},
       {"Tapas Cántaro Plateadas"}, {"Tapas Cántaro Negras"} >>

RuleRank(product) ==
    IF \E k \in 1..Len(RuleOrder) : product \in RuleOrder[k]
    THEN CHOOSE k \in 1..Len(RuleOrder) : product \in RuleOrder[k]
    ELSE 0

\* C6: the output list is the input list, item for item and in order,
\* followed by the synthesized items in rule order.
C6_InputThenSynthesizedInRuleOrder ==
    Done =>
        /\ Len(OutputItems) >= Len(InputItems)
        /\ ProductQty(SubSeq(OutputItems, 1, Len(InputItems))) = ProductQty(InputItems)
        /\ \A i \in 1..Len(Synthesized) : RuleRank(Synthesized[i].product) > 0
        /\ \A i, j \in 1..Len(Synthesized) :
              i < j => RuleRank(Synthesized[i].product) < RuleRank(Synthesized[j].product)

\* Two different input items, then items of at least four rules.
C6_Witness ==
    /\ Done
    /\ Len(InputItems) = 2
    /\ InputItems[1].product # InputItems[2].product
    /\ Len(Synthesized) >= 4

-----------------------------------------------------------------------------
(* C7 *)

\* C7: raw_text, client_name, remito_number and fecha of the output note are
\* those of the input note.
C7_MetadataCarried ==
    Done => /\ enhanced_note.raw_text = parsed_note.raw_text
            /\ enhanced_note.client_name = parsed_note.client_name
            /\ enhanced_note.remito_number = parsed_note.remito_number
            /\ enhanced_note.fecha = parsed_note.fecha

\* A note with its four metadata fields set went through rules that fired.
C7_Witness ==
    /\ Done
    /\ parsed_note.raw_text # None
    /\ parsed_note.client_name # None
    /\ parsed_note.remito_number # None
    /\ parsed_note.fecha # None
    /\ Len(Synthesized) > 0

-----------------------------------------------------------------------------
(* C8 *)

LookedUp == pc = "looked_up"

\* The catalog entries whose key is in the lowercased, trimmed name.
MatchingEntries(name) ==
    {i \in 1..Len(PRODUCT_MAPPING) :
        Contains(MappingKey(i), normalize_product_name(name))}

\* C8: map_to_form_value returns the value of the first matching entry in
\* table order; with no match, the name as given; "" for "".
C8_FirstMatchOrOriginal ==
    LookedUp =>
        LET matching == MatchingEntries(product_name)
        IN  /\ matching # {} =>
                  \E i \in matching : /\ \A j \in matching : i <= j
                                      /\ returned_value = MappingValue(i)
            /\ matching = {} => returned_value = product_name
            /\ product_name = "" => returned_value = ""

\* A name that two entries with different values match.
C8_Witness ==
    /\ LookedUp
    /\ \E i, j \in MatchingEntries(product_name) : MappingValue(i) # MappingValue(j)

-----------------------------------------------------------------------------
(* C9 *)

\* C9: an item whose name contains "purificador" never sets hasRio: a note
\* without Lago whose "rio" items all contain "purificador" gets no cable
\* interlock and no TALOS regulator.
C9_PurificadorNeverSetsRio ==
    (/\ Done
     /\ ~has_equipo_lago(InputItems)
     /\ \A i \in 1..Len(InputItems) :
            LET normalized == normalize_product_name(InputItems[i].product)
            IN  Contains("rio", normalized) => Contains("purificador", normalized))
        => /\ SynthesizedNamed("Cable Interlock 220V") = {}
           /\ SynthesizedNamed("Regulador TALOS") = {}

-----------------------------------------------------------------------------
(* C10 *)

SynthesizedRegulators ==
    {i \in 1..Len(Synthesized) : Synthesized[i].product \in RegulatorNames}

\* C10: with a tubo-CO2 item and no regulator item, exactly one regulator of
\* quantity 1 is synthesized: ZERICA if hasLago, else TALOS if hasRio, else
\* the generic ZERICA "Regulador/Manómetro"; otherwise none is synthesized.
C10_RegulatorInference ==
    Done =>
        LET tubo == \E i \in 1..Len(InputItems) :
                        /\ Contains("tubo", normalize_product_name(InputItems[i].product))
                        /\ Contains("co2", normalize_product_name(InputItems[i].product))
            regulator == GuardCount("regulador", InputItems) > 0
            expected ==
                IF has_equipo_lago(InputItems)
                THEN <<"Regulador ZERICA", "CO2 | regulador | Zerica">>
                ELSE IF has_equipo_rio(InputItems)
                THEN <<"Regulador TALOS", "CO2 | regulador | Talos">>
                ELSE <<"Regulador/Manómetro", "CO2 | regulador | Zerica">>
        IN  IF tubo /\ ~regulator
            THEN /\ Cardinality(SynthesizedRegulators) = 1
                 /\ \A i \in SynthesizedRegulators :
                        /\ Synthesized[i].product = expected[1]
                        /\ Synthesized[i].form_value = Some(expected[2])
                        /\ Synthesized[i].quantity = 1
            ELSE SynthesizedRegulators = {}

\* Lago and Rio are both on the note and the regulator is ZERICA.
C10_Witness ==
    /\ Done
    /\ has_equipo_lago(InputItems)
    /\ has_equipo_rio(InputItems)
    /\ \E i \in SynthesizedRegulators : Synthesized[i].product = "Regulador ZERICA"

-----------------------------------------------------------------------------
(* C11 *)

\* C11: "Conector 1/8-8" (quantity 1) is synthesized, once, if and only if
\* the note has a regulator (an input regulator/manómetro item, or the one
\* rule 4 synthesized in this call) and no input item contains "1/8".
C11_RegulatorConnector ==
    Done =>
        LET connectors == SynthesizedNamed("Conector 1/8-8")
            regulator == \/ GuardCount("regulador", InputItems) > 0
                         \/ SynthesizedRegulators # {}
        IN  /\ connectors # {} <=> (regulator /\ GuardCount("1/8", InputItems) = 0)
            /\ Cardinality(connectors) <= 1
            /\ \A i \in connectors : Synthesized[i].quantity = 1

\* A note with a regulator item and no "1/8" item: rule 4 did not fire and
\* the connector was added.
C11_Witness ==
    /\ Done
    /\ GuardCount("regulador", InputItems) > 0
    /\ SynthesizedRegulators = {}
    /\ SynthesizedNamed("Conector 1/8-8") # {}

-----------------------------------------------------------------------------
(* C12 *)

-----------------------------------------------------------------------------
(* C16 *)

\* The input items that name 500 cc cántaro bottles.
CantaroItems ==
    {i \in 1..Len(InputItems) :
        LET normalized == normalize_product_name(InputItems[i].product)
        IN  /\ Contains("botellas", normalized)
            /\ Contains("cantaro", normalized)
            /\ Contains("500", normalized)}

LastCantaroQty ==
    IF CantaroItems = {} THEN 0
    ELSE InputItems[CHOOSE i \in CantaroItems : \A j \in CantaroItems : j <= i].quantity

\* C16: cantaro_500_qty is the quantity of the last matching input item (0
\* when none matches), not a sum; caps are split from that quantity only, and
\* when it is 0 or negative no cap is synthesized, whatever an earlier
\* matching item's quantity.
C16_LastCantaroQuantity ==
    Done =>
        /\ cantaro_500_qty(InputItems) = LastCantaroQty
        /\ LastCantaroQty <= 0 => SynthesizedCaps = {}
        /\ LastCantaroQty > 0 =>
              /\ \A i \in SynthesizedNamed("Tapas Cántaro Plateadas") :
                     Synthesized[i].quantity = LastCantaroQty \div 2
              /\ \A i \in SynthesizedNamed("Tapas Cántaro Negras") :
                     Synthesized[i].quantity = LastCantaroQty - (LastCantaroQty \div 2)

\* Two matching items, the earlier with a positive quantity and the last
\* with none: no cap was synthesized.
C16_Witness ==
    /\ Done
    /\ Cardinality(CantaroItems) = 2
    /\ \E i \in CantaroItems : InputItems[i].quantity > 0
    /\ LastCantaroQty <= 0
    /\ SynthesizedCaps = {}

-----------------------------------------------------------------------------
(* C17 *)

\* C17: the form value each rule writes on the item it synthesizes is the one
\* map_to_form_value gives for that item's product name.
C17_SynthesizedFormValue ==
    Done =>
        \A i \in 1..Len(Synthesized) :
            Synthesized[i].form_value = Some(map_to_form_value(Synthesized[i].product))

\* The generic regulator and, in another note, the drip tray were
\* synthesized: their names reach the catalog through "manómetro" and
\* "bandeja de goteo".
C17_Witness ==
    /\ Done
    /\ \/ SynthesizedNamed("Regulador/Manómetro") # {}
       \/ SynthesizedNamed("Bandeja de Goteo (incluida con Lago)") # {}
    /\ \A i \in 1..Len(Synthesized) :
           /\ Synthesized[i].form_value # Some(Synthesized[i].product)
           /\ Synthesized[i].form_value = Some(map_to_form_value(Synthesized[i].product))

-----------------------------------------------------------------------------
(* C18 *)

\* C18: when every input item has a quantity of at least 1, every
\* synthesized item has a quantity of at least 1.
C18_SynthesizedQuantityPositive ==
    (Done /\ \A i \in 1..Len(InputItems) : InputItems[i].quantity >= 1)
        => \A i \in 1..Len(Synthesized) : Synthesized[i].quantity >= 1

-----------------------------------------------------------------------------
(* C15 *)

\* The pairs <<i, j>> of catalog entries where key i is inside key j, entry i
\* comes first and the two map to different options.
ShadowingPairs ==
    {p \in (1..Len(PRODUCT_MAPPING)) \X (1..Len(PRODUCT_MAPPING)) :
        /\ p[1] < p[2]
        /\ Contains(MappingKey(p[1]), MappingKey(p[2]))
        /\ MappingValue(p[1]) # MappingValue(p[2])}

\* C15: whenever a catalog key is a substring of another, the longer key
\* comes first or both map to the same option; so a name that matches the
\* longer key and is answered through the shorter one gets the longer key's
\* option.
C15_NoShadowing ==
    /\ ShadowingPairs = {}
    /\ LookedUp =>
          \A i \in MatchingEntries(product_name), j \in MatchingEntries(product_name) :
              (/\ \A k \in MatchingEntries(product_name) : i <= k
               /\ i # j
               /\ Contains(MappingKey(i), MappingKey(j)))
                  => returned_value = MappingValue(j)

\* A name that contains "tubo de co2 5kg" was answered through the earlier
\* key "tubo de co2 5" and got the option of the longer key.
C15_Witness ==
    /\ LookedUp
    /\ \E i \in MatchingEntries(product_name), j \in MatchingEntries(product_name) :
           /\ \A k \in MatchingEntries(product_name) : i <= k
           /\ i < j
           /\ Contains(MappingKey(i), MappingKey(j))
           /\ returned_value = MappingValue(j)

-----------------------------------------------------------------------------
(* C14 *)

\* C14: fill_form does not submit the form; every submission the form
\* service receives was made by a submit_form call.
C14_FillFormDoesNotSubmit ==
    \A i \in 1..Len(submissions) : submissions[i].by = "submit_form"

-----------------------------------------------------------------------------
(* C19 *)

\* C19: within one parse_image call no model is attempted twice, and the
\* call raises "All OpenRouter models failed" only after it has attempted
\* every model of OPENROUTER_MODELS, whatever _failed_models held when the
\* call began.
C19_EachModelOncePerCall ==
    /\ \A i \in 1..Len(attempted), j \in 1..Len(attempted) :
           i # j => attempted[i] # attempted[j]
    /\ llm_pc = "raised" =>
           \A k \in 1..Len(OPENROUTER_MODELS) :
               \E i \in 1..Len(attempted) : attempted[i] = OPENROUTER_MODELS[k]

-----------------------------------------------------------------------------
(* C13 *)

\* C13: under every interleaving of the steps of two invocations on
\* independent notes, no step writes the catalog table and each invocation
\* returns what apply_business_rules returns for its note when run alone.
C13_InvocationsIndependent ==
    /\ catalog = PRODUCT_MAPPING
    /\ \A t \in CallIds :
           calls[t].pc = "done" => calls[t].result = apply_business_rules(calls[t].note)

\* Both invocations have returned, each took steps while the other was
\* between its call and its return, and each had two items to map.
C13_Witness ==
    \A t \in CallIds :
        /\ calls[t].pc = "done"
        /\ calls[t].overlapped
        /\ Len(calls[t].note.items) = 2
        /\ Len(calls[t].result.items) > 2

====
